---- MODULE Spec2Model ----
(***************************************************************************)
(* Model of the battery monitor's acquisition pipeline:                    *)
(*   src/src/sensor/main_voltage.c   sample buffer, ADC scan, NVS log,     *)
(*                                   CSV serializer, flush                 *)
(*   src/src/hardware/mux.c          multiplexer channel selection         *)
(*   src/src/application/application.c  the periodic driver loop           *)
(* Every action models one whole C function call.  The peripherals (ADC,   *)
(* multiplexer, NVS flash log, BLE link) are the environment: each outcome *)
(* they can produce is an input drawn with \E.                             *)
(***************************************************************************)
EXTENDS Integers, Naturals, Sequences, FiniteSets, TLC

(***************************************************************************)
(* Program constants (main_voltage.c).                                     *)
(***************************************************************************)
NUMBER_OF_BATTERIES_IN_SERIES == 5
NUMBER_OF_MUXES == 2
NUMBER_OF_MUX_CHANNELS == 4
TOTAL_CHANNELS == NUMBER_OF_MUXES * NUMBER_OF_MUX_CHANNELS
R1 == 240000
R2 == 10000
ADC_REF_CV == 330
ADC_RESOLUTION == 1024
ADDRESS_ID == 1

(***************************************************************************)
(* Bounds of the model.  MAX_SAMPLES (128 in the source) and the size of   *)
(* attempt_send's csv_buffer (1024 in the source) are scaled down          *)
(* together: as in the source, the header and the first record fit the CSV *)
(* block, a full buffer of records does not.  MaxBufSize bounds the region *)
(* sizes format_csv is called with, MaxTicks the driver periods that pass. *)
(***************************************************************************)
MAX_SAMPLES == 2
CSV_BUFFER_SIZE == 60
MaxBufSize == 80
MaxTicks == 2

\* The driver's period, k_sleep(K_MSEC(1000)) (application.c:44).
PERIOD_MS == 1000

Min(a, b) == IF a < b THEN a ELSE b

(***************************************************************************)
(* adc_sample_t and the statically zero-initialised samples[] array.       *)
(***************************************************************************)
adc_sample_t(ts, vals) == [timestamp |-> ts, adc_values |-> vals]

ZeroSample == adc_sample_t(0, [c \in 1..TOTAL_CHANNELS |-> 0])

(***************************************************************************)
(* convert_adc_to_scaled_voltage: the products are uint32_t, the result is *)
(* narrowed to uint16_t.  At the configured 10-bit resolution the products *)
(* stay below 2^31 (1023 * 330 and 329 * 250000), inside the range the     *)
(* checker computes in; the narrowing is the % 65536.                      *)
(***************************************************************************)
\* The resolution the ADC sequence is configured with (.resolution = 10)
\* and the largest raw sample it produces.
ADC_BITS == 10

RawMax == 2^ADC_BITS - 1

\* p fits a uint32_t: p < 2^32.
FitsU32(p) == p \div 65536 < 65536

\* The two uint32_t products of the conversion, and the quotient before it
\* is narrowed to the uint16_t v_in.
ScaledProduct(adc_value) == adc_value * ADC_REF_CV

DividerProduct(adc_value) ==
    (ScaledProduct(adc_value) \div ADC_RESOLUTION) * (R1 + R2)

DividerQuotient(adc_value) == DividerProduct(adc_value) \div R2

\* Mutant: the result narrowed to 8 bits.
convert_adc_to_scaled_voltage_Narrow8(adc_value) ==
    LET v_adc == (adc_value * ADC_REF_CV) \div ADC_RESOLUTION
        v_in  == ((v_adc * (R1 + R2)) \div R2) % 256
    IN  v_in

convert_adc_to_scaled_voltage(adc_value) ==
    LET v_adc == (adc_value * ADC_REF_CV) \div ADC_RESOLUTION
        v_in  == ((v_adc * (R1 + R2)) \div R2) % 65536
    IN  v_in

(***************************************************************************)
(* The environment of a scan.  The analog level seen by the single ADC     *)
(* input depends on the multiplexer channel selected when the read is      *)
(* triggered; NoChannel is the selection before any set_mux_channel call.  *)
(***************************************************************************)
NoChannel == <<-1, -1>>

LogicalChannel(sel) ==
    IF sel = NoChannel THEN -1 ELSE sel[1] * NUMBER_OF_MUX_CHANNELS + sel[2]

\* The analog level of a scan: raw 100 on the first input, 10 more per channel.
RawLevels == {100}

RawSample(level, sel) == level + 10 * (LogicalChannel(sel) + 1)

\* The reads that fail in one call: none, the initial read, or the first
\* read inside the loops.
FailChoices == {{}, {0}, {1}}

(***************************************************************************)
(* One call's scan.  sc.hw is the hardware state that outlives the call:   *)
(* adc_buffer[0], where its content came from (the channel selected and    *)
(* whether the settling delay had elapsed when that read was triggered),   *)
(* and the multiplexer selection.  sc.rec is samples[sample_index] as the  *)
(* call writes it, sc.src the origin of each value stored, sc.reads the    *)
(* number of adc_read calls made, sc.trace the external calls in order.    *)
(***************************************************************************)
Event(e, a, b) == [e |-> e, a |-> a, b |-> b]

NoSource == [chan |-> -2, settled |-> FALSE, read |-> -1]

NoSources == [c \in 1..TOTAL_CHANNELS |-> NoSource]

\* adc_read(adc_dev, &sequence): on success the raw sample of the selected
\* channel lands in adc_buffer[0]; on error the buffer keeps its content.
adc_read(sc, level, fails) ==
    LET ok == sc.reads \notin fails
    IN  [sc EXCEPT
          !.hw.adc_buffer = IF ok THEN RawSample(level, sc.hw.sel) ELSE @,
          !.hw.adc_src    = IF ok THEN [chan |-> LogicalChannel(sc.hw.sel),
                                        settled |-> sc.hw.settled,
                                        read |-> sc.reads]
                                  ELSE @,
          !.reads         = @ + 1,
          !.trace         = Append(@, Event("adc_read", IF ok THEN 0 ELSE -5, sc.reads))]

\* set_mux_channel(mux, channel): drives the four select pins of one mux.
set_mux_channel(sc, mux, channel) ==
    [sc EXCEPT
      !.hw.pins[mux] = channel % 16,
      !.hw.sel       = <<mux, channel>>,
      !.hw.settled   = FALSE,
      !.trace        = Append(@, Event("set_mux_channel", mux, channel))]

\* k_sleep(K_USEC(50)): the settling delay after a channel selection.
k_sleep_settle(sc) ==
    [sc EXCEPT !.hw.settled = TRUE,
               !.trace      = Append(@, Event("k_sleep", 50, 0))]

\* samples[sample_index].adc_values[index] = convert(adc_buffer[0])
StoreValue(sc, index) ==
    [sc EXCEPT
      !.rec.adc_values[index + 1] = convert_adc_to_scaled_voltage(sc.hw.adc_buffer),
      !.src[index + 1]            = sc.hw.adc_src,
      !.trace                     = Append(@, Event("store", index, sc.hw.adc_src.read))]

\* The nested loops "for mux ... for channel ..." visit this sequence.
ScanOrder ==
    [k \in 1..TOTAL_CHANNELS |->
        <<(k - 1) \div NUMBER_OF_MUX_CHANNELS, (k - 1) % NUMBER_OF_MUX_CHANNELS>>]

ValueIndex(mux, channel) == mux * NUMBER_OF_MUX_CHANNELS + channel

\* Loop body of store_sample: read, select, settle, store.
StoreSampleBody(sc, mux, channel, level, fails) ==
    StoreValue(k_sleep_settle(set_mux_channel(adc_read(sc, level, fails),
                                              mux, channel)),
               ValueIndex(mux, channel))

\* Loop body of store_sample_nvs: select, settle, read, store.
StoreSampleNvsBody(sc, mux, channel, level, fails) ==
    StoreValue(adc_read(k_sleep_settle(set_mux_channel(sc, mux, channel)),
                        level, fails),
               ValueIndex(mux, channel))

\* The loops: after[k] is the scan after k iterations of the loop body.
ScanLoop(sc, nvsVariant, level, fails) ==
    LET after[k \in 0..Len(ScanOrder)] ==
            IF k = 0 THEN sc
            ELSE IF nvsVariant
                 THEN StoreSampleNvsBody(after[k - 1], ScanOrder[k][1],
                                         ScanOrder[k][2], level, fails)
                 ELSE StoreSampleBody(after[k - 1], ScanOrder[k][1],
                                      ScanOrder[k][2], level, fails)
    IN  after[Len(ScanOrder)]

\* int err = adc_read(adc_dev, &sequence): the initial read of a call.
InitialRead(h, level, fails) ==
    adc_read([hw |-> h, rec |-> ZeroSample,
              src |-> NoSources, reads |-> 0, trace |-> <<>>], level, fails)

\* The hardware state a call leaves: to the next call, what adc_buffer
\* holds is no read of its own (-1).
AfterCall(h) == [h EXCEPT !.adc_src.read = -1]

\* -EIO when the initial read fails.
ReadErr(fails) == IF 0 \in fails THEN -5 ELSE 0

\* samples[sample_index].timestamp = timestamp; then the loops.
Scan(sc, rec, ts, nvsVariant, level, fails) ==
    ScanLoop([sc EXCEPT !.rec = [rec EXCEPT !.timestamp = ts]],
             nvsVariant, level, fails)

AnyReadFailed(sc, fails) == \E r \in fails : r < sc.reads

(***************************************************************************)
(* format_csv (main_voltage.c:228).  Text is a sequence of characters.     *)
(* mem[i + 1] is the byte at buffer + i.  The caller's region is bytes      *)
(* 0..buf_size-1; the model keeps Overrun bytes of the memory that follows *)
(* it, so that a write past the region is seen.  "NUL" is the terminator,  *)
(* "?" an indeterminate byte.                                              *)
(***************************************************************************)
DigitChars == <<"0", "1", "2", "3", "4", "5", "6", "7", "8", "9">>

\* "%d" / "%lld" of a non-negative integer.
RECURSIVE Decimal(_)
Decimal(n) ==
    IF n < 10 THEN <<DigitChars[n + 1]>>
    ELSE Append(Decimal(n \div 10), DigitChars[(n % 10) + 1])

TimestampText == <<"T", "i", "m", "e", "s", "t", "a", "m", "p">>

LabelText(i) == <<",", "B">> \o Decimal(i)

ValueText(v) == <<",">> \o Decimal(v)

NewlineText == <<"\n">>

\* size_t is 32 bits on the target; SizeMod stands for 2^32 within the
\* checker's integers: buf_size - offset wraps to a huge size either way.
SizeMod == 2^30

SizeSub(a, b) == (a - b + SizeMod) % SizeMod

\* Cells of foreign memory kept after the caller's region.
Overrun == Len(TimestampText) + NUMBER_OF_BATTERIES_IN_SERIES * 3 + 2

FreshBuffer(buf_size) ==
    [buf_size |-> buf_size, offset |-> 0, ret |-> 0,
     mem |-> [i \in 1..(buf_size + Overrun) |-> "?"],
     high |-> -1, underflow |-> FALSE, written |-> 0]

\* snprintf(buffer + offset, buf_size - offset, text): writes at most
\* size - 1 characters and a terminator, nothing when size is 0, and
\* returns the length of the whole text.
Snprintf(b, text) ==
    LET size == SizeSub(b.buf_size, b.offset)
        n    == IF size = 0 THEN 0 ELSE Min(Len(text), size - 1)
    IN  [b EXCEPT
          !.mem = IF size = 0 THEN @
                  ELSE SubSeq(@, 1, b.offset) \o SubSeq(text, 1, n) \o <<"NUL">>
                       \o SubSeq(@, b.offset + n + 2, Len(@)),
          !.high = IF size > 0 /\ b.offset + n > @ THEN b.offset + n ELSE @,
          !.underflow = @ \/ b.offset > b.buf_size,
          !.written = Len(text)]

\* offset += snprintf(...)   (the header: the result is not checked)
HeaderPiece(b, text) ==
    LET w == Snprintf(b, text)
    IN  [w EXCEPT !.offset = @ + w.written]

RECURSIVE HeaderLabels(_, _)
HeaderLabels(b, i) ==
    IF i > NUMBER_OF_BATTERIES_IN_SERIES THEN b
    ELSE HeaderLabels(HeaderPiece(b, LabelText(i)), i + 1)

\* written = snprintf(...); if (written >= buf_size - offset) return -2;
\* offset += written;
RowPiece(b, text) ==
    LET w == Snprintf(b, text)
    IN  IF w.written >= SizeSub(b.buf_size, b.offset)
        THEN [w EXCEPT !.ret = -2]
        ELSE [w EXCEPT !.offset = @ + w.written]

RECURSIVE RowValues(_, _, _)
RowValues(b, rec, i) ==
    IF i >= NUMBER_OF_BATTERIES_IN_SERIES \/ b.ret # 0 THEN b
    ELSE RowValues(RowPiece(b, ValueText(rec.adc_values[i + 1])), rec, i + 1)

\* if (offset < buf_size - 1) { buffer[offset++] = '\n'; buffer[offset] = '\0'; }
RowNewline(b) ==
    IF b.offset < SizeSub(b.buf_size, 1)
    THEN [b EXCEPT !.mem[b.offset + 1] = "\n",
                   !.mem[b.offset + 2] = "NUL",
                   !.high = IF b.offset + 1 > @ THEN b.offset + 1 ELSE @,
                   !.offset = @ + 1]
    ELSE [b EXCEPT !.ret = -2]

CsvRow(b, rec) ==
    LET t == RowPiece(b, Decimal(rec.timestamp))
        v == RowValues(t, rec, 0)
    IN  IF v.ret # 0 THEN v ELSE RowNewline(v)

RECURSIVE CsvRows(_, _, _, _)
CsvRows(b, smp, j, count) ==
    IF ~(j < count) \/ b.ret # 0 THEN b
    ELSE CsvRows(CsvRow(b, smp[j]), smp, j + 1, count)

CsvHeader(b) ==
    HeaderPiece(HeaderLabels(HeaderPiece(b, TimestampText), 1), NewlineText)

format_csv(smp, count, buf_size) ==
    IF buf_size = 0 THEN [FreshBuffer(buf_size) EXCEPT !.ret = -1]
    ELSE LET h == CsvHeader(FreshBuffer(buf_size))
         IN  IF h.offset >= buf_size THEN [h EXCEPT !.ret = -2]
             ELSE CsvRows(h, smp, 0, count)

\* strlen(buffer) and the string it delimits, read as the C library reads
\* it: up to the first terminator, wherever that is.
RECURSIVE StrLenFrom(_, _)
StrLenFrom(mem, i) ==
    IF i >= Len(mem) \/ mem[i + 1] = "NUL" THEN i ELSE StrLenFrom(mem, i + 1)

strlen(mem) == StrLenFrom(mem, 0)

CString(mem) == SubSeq(mem, 1, strlen(mem))

(***************************************************************************)
(* The NVS flash log: a key-indexed store that survives in flash.  An      *)
(* entry is a sample written by store_sample_nvs, the address string       *)
(* written by flash_init, or absent.                                       *)
(***************************************************************************)
NvsKeys == 0..(MAX_SAMPLES - 1) \cup {ADDRESS_ID}

NoEntry == [kind |-> "none", rec |-> ZeroSample]

SampleEntry(rec) == [kind |-> "sample", rec |-> rec]

AddressEntry == [kind |-> "address", rec |-> ZeroSample]

\* nvs_write(&fs, id, data, len): -EACCES unless mounted, otherwise the
\* flash decides (wrOk); the entry replaces what the key held.
nvs_write_rc(ready, wrOk) == IF ready /\ wrOk THEN 1 ELSE -13

nvs_write_data(data, ready, wrOk, id, entry) ==
    IF ready /\ wrOk THEN [data EXCEPT ![id] = entry] ELSE data

\* nvs_read(&fs, id, data, len): bytes read (> 0) when the key holds an
\* entry, -EACCES unless mounted, -ENOENT when the key is absent.
nvs_read_rc(f, id) ==
    IF ~f.ready THEN -13
    ELSE IF f.data[id].kind = "none" THEN -2
    ELSE IF f.data[id].kind = "address" THEN 12 ELSE 24

\* The 12 bytes of "192.168.1.1" read into an adc_sample_t cover the
\* timestamp and adc_values[0..1].  The 64-bit timestamp they spell
\* (0x2E3836312E323931) is beyond the checker's integers; AddressTimestamp
\* stands for it, larger than any uptime the model reaches.
AddressTimestamp == 2000000000

AddressOverlay(rec) ==
    [rec EXCEPT !.timestamp = AddressTimestamp,
                !.adc_values[1] = 11825,
                !.adc_values[2] = 49]

\* What nvs_read leaves in *data for a key that holds an entry.
nvs_read_into(f, id, rec) ==
    IF f.data[id].kind = "sample" THEN f.data[id].rec
    ELSE IF f.data[id].kind = "address" THEN AddressOverlay(rec)
    ELSE rec

(***************************************************************************)
(* State.                                                                  *)
(*   samples, sample_index   the static sample buffer and its write index  *)
(*   hw       adc_buffer[0] and the multiplexer selection                  *)
(*   fs       the NVS file system: mounted flag and flash contents         *)
(*   uptime   k_uptime_get(), in milliseconds                              *)
(*   last     the last call: which function; for a store or a flush the    *)
(*            sample_index it found and its error code; for a store        *)
(*            whether an ADC read failed, whether it appended, the origin  *)
(*            of the values it stored and its trace of external calls      *)
(*   csv      the output region the last call left, if it serialized       *)
(*   scans    history of the in-memory pipeline: the records produced by   *)
(*            the store_sample calls whose reads all succeeded, since the  *)
(*            buffer was last empty.  Broken, until the next successful    *)
(*            flush, once a store was rejected or stored a failed read;    *)
(*            Dropped for good once a function of the NVS variant ran      *)
(*   notify_enabled   the flag ccc_cfg_changed keeps (service.c:9)         *)
(*   bt       the last call of a send function of service.c (bt_send_csv,  *)
(*            bt_send_voltage, bt_send_temp): the flag it found, the       *)
(*            length of its payload, its result, its external calls, the   *)
(*            chunk whose send failed (0: none) and the bytes delivered    *)
(*   boot     history of the restarts: how many there were, where the      *)
(*            session stands (logging, restarted, started, recovered),     *)
(*            and, from the last restart, the records the buffer held      *)
(*            (originals) and whether the log held each of them at the key *)
(*            of its slot (mirrored)                                       *)
(*   run      where the main thread stands in the loop of run_application  *)
(*            when its calls are followed step by step: the statement it   *)
(*            is at (pc), and inside store_sample the iteration of the     *)
(*            loops (k), the scan so far (sc) and what the ADC will return *)
(*            (level, fails)                                               *)
(*   ccc      the value the client last wrote to the descriptor of each    *)
(*            characteristic, voltage and temp (the stack keeps it)        *)
(***************************************************************************)
VARIABLES samples, sample_index, hw, fs, uptime, last, csv, scans,
          notify_enabled, bt, boot, run, ccc

vars == <<samples, sample_index, hw, fs, uptime, last, csv, scans,
          notify_enabled, bt, boot, run, ccc>>

\* What the buffer operations of main_voltage.c leave alone.
outside == <<notify_enabled, bt, run, ccc>>

elsewhere == <<notify_enabled, bt, boot, run, ccc>>

\* samples[index], for any index a uint8_t can hold: outside the array the
\* access touches other memory, which the model does not keep.
SlotRead(smp, index) == IF index \in DOMAIN smp THEN smp[index] ELSE ZeroSample

\* Mutants: every record lands in slot 0; a record lands in the slot
\* before its own.
SlotWrite_First(smp, index, rec) == [smp EXCEPT ![0] = rec]

SlotWrite_Previous(smp, index, rec) ==
    IF index - 1 \in DOMAIN smp THEN [smp EXCEPT ![index - 1] = rec]
    ELSE IF index \in DOMAIN smp THEN [smp EXCEPT ![index] = rec] ELSE smp

SlotWrite(smp, index, rec) ==
    IF index \in DOMAIN smp THEN [smp EXCEPT ![index] = rec] ELSE smp

\* The output region after a format_csv call: the string it holds, whether
\* that string ends inside the region, and the highest cell written.
CsvOutput(b) ==
    [buf_size |-> b.buf_size, ret |-> b.ret, text |-> CString(b.mem),
     terminated |-> strlen(b.mem) < b.buf_size,
     high |-> b.high, underflow |-> b.underflow]

NoCsv == [buf_size |-> 0, ret |-> 0, text |-> <<>>, terminated |-> FALSE,
          high |-> -1, underflow |-> FALSE]

NoScans == [ok |-> TRUE, recs |-> <<>>, kept |-> TRUE]

Broken == [ok |-> FALSE, recs |-> <<>>, kept |-> TRUE]

Dropped == [ok |-> FALSE, recs |-> <<>>, kept |-> FALSE]

Last(op, index, err, failed, appended, src, trace) ==
    [op |-> op, index |-> index, err |-> err, failed |-> failed,
     appended |-> appended, src |-> src, trace |-> trace]

Call(op, index, err) == Last(op, index, err, FALSE, FALSE, NoSources, <<>>)

ScanCall(op, index, err, sc, fails, appended) ==
    Last(op, index, err, AnyReadFailed(sc, fails), appended, sc.src, sc.trace)

NoTransfer ==
    [op |-> "none", enabled |-> FALSE, len |-> 0, ret |-> 0, trace |-> <<>>,
     failed |-> 0, rx |-> <<>>]

\* The main thread between two calls, about to run the statement pc.
AtStatement(pc) ==
    [pc |-> pc, k |-> 0, level |-> 0, fails |-> {},
     sc |-> [hw |-> [adc_buffer |-> 0, adc_src |-> NoSource,
                     pins |-> [m \in 0..(NUMBER_OF_MUXES - 1) |-> 0],
                     sel |-> NoChannel, settled |-> FALSE],
             rec |-> ZeroSample, src |-> NoSources, reads |-> 0, trace |-> <<>>]]

\* No descriptor written yet.
NoCcc == [voltage |-> 0, temp |-> 0]

FirstBoot ==
    [count |-> 0, phase |-> "logging", mirrored |-> TRUE, originals |-> <<>>]

Init ==
    /\ samples = [i \in 0..(MAX_SAMPLES - 1) |-> ZeroSample]
    /\ sample_index = 0
    /\ hw = [adc_buffer |-> 0, adc_src |-> NoSource,
             pins |-> [m \in 0..(NUMBER_OF_MUXES - 1) |-> 0],
             sel |-> NoChannel, settled |-> FALSE]
    /\ fs = [ready |-> FALSE, data |-> [k \in NvsKeys |-> NoEntry]]
    /\ uptime = 0
    /\ last = Call("boot", 0, 0)
    /\ csv = NoCsv
    /\ scans = NoScans
    /\ notify_enabled = FALSE
    /\ bt = NoTransfer
    /\ boot = FirstBoot
    /\ run = AtStatement("temp")
    /\ ccc = NoCcc

\* Time passes between calls, one driver period at a time.
Tick ==
    /\ uptime + PERIOD_MS <= MaxTicks * PERIOD_MS
    /\ uptime' = uptime + PERIOD_MS
    /\ UNCHANGED <<samples, sample_index, hw, fs, last, csv, scans>>
    /\ UNCHANGED elsewhere

(***************************************************************************)
(* store_sample (main_voltage.c:336).                                      *)
(***************************************************************************)
\* Mutants: the capacity test dropped; the capacity test off by one.
StoreGuard_NoCapacity(index, err) == err = 0

StoreGuard_OffByOne(index, err) == index <= MAX_SAMPLES /\ err = 0

\* if (sample_index < MAX_SAMPLES && err == 0)
StoreGuard(index, err) == index < MAX_SAMPLES /\ err = 0

\* sample_index++ on a uint8_t.
NextIndex(index) == (index + 1) % 256

StoreSample ==
    /\ UNCHANGED elsewhere
    /\ \E level \in RawLevels, fails \in FailChoices :
        LET s0        == InitialRead(hw, level, fails)
            err       == ReadErr(fails)
            timestamp == uptime \div 1000
        IN  IF StoreGuard(sample_index, err)
            THEN LET sc == Scan(s0, SlotRead(samples, sample_index), timestamp,
                                FALSE, level, fails)
                 IN  /\ samples' = SlotWrite(samples, sample_index, sc.rec)
                     /\ sample_index' = NextIndex(sample_index)
                     /\ hw' = AfterCall(sc.hw)
                     /\ last' = ScanCall("store_sample", sample_index, err, sc, fails, TRUE)
                     /\ csv' = NoCsv
                     /\ scans' = IF scans.ok /\ fails = {}
                                 THEN [scans EXCEPT !.recs = Append(@, sc.rec)]
                                 ELSE IF scans.kept THEN Broken ELSE Dropped
                     /\ UNCHANGED <<fs, uptime>>
            ELSE /\ hw' = AfterCall(s0.hw)
                 /\ last' = ScanCall("store_sample", sample_index, err, s0, fails, FALSE)
                 /\ csv' = NoCsv
                 /\ scans' = IF err # 0 \/ ~scans.kept THEN scans ELSE Broken
                 /\ UNCHANGED <<samples, sample_index, fs, uptime>>

(***************************************************************************)
(* store_sample_nvs (main_voltage.c:357).                                  *)
(***************************************************************************)
\* if (rc >= 0) sample_index++;
IndexAfterWrite(index, rc) == IF rc >= 0 THEN NextIndex(index) ELSE index

StoreSampleNvsCall ==
    /\ UNCHANGED outside
    /\ \E level \in RawLevels, fails \in FailChoices :
        LET s0        == InitialRead(hw, level, fails)
            err       == ReadErr(fails)
            timestamp == uptime \div 1000
        IN  IF StoreGuard(sample_index, err)
            THEN LET sc == Scan(s0, SlotRead(samples, sample_index), timestamp,
                                TRUE, level, fails)
                 IN  /\ samples' = SlotWrite(samples, sample_index, sc.rec)
                     /\ hw' = AfterCall(sc.hw)
                     /\ csv' = NoCsv
                     /\ scans' = Dropped
                     /\ \E wrOk \in BOOLEAN :
                          LET rc == nvs_write_rc(fs.ready, wrOk)
                          IN  /\ fs' = [fs EXCEPT !.data =
                                          nvs_write_data(@, fs.ready, wrOk, sample_index,
                                                         SampleEntry(sc.rec))]
                              /\ sample_index' = IndexAfterWrite(sample_index, rc)
                              /\ last' = ScanCall("store_sample_nvs", sample_index,
                                                  IF rc >= 0 THEN err ELSE rc,
                                                  sc, fails, rc >= 0)
                     /\ UNCHANGED uptime
            ELSE /\ hw' = AfterCall(s0.hw)
                 /\ last' = ScanCall("store_sample_nvs", sample_index, err, s0, fails, FALSE)
                 /\ csv' = NoCsv
                 /\ scans' = Dropped
                 /\ UNCHANGED <<samples, sample_index, fs, uptime>>

StoreSampleNvs ==
    /\ StoreSampleNvsCall
    /\ UNCHANGED boot

(***************************************************************************)
(* load_samples_from_nvs (main_voltage.c:409).                             *)
(***************************************************************************)
RECURSIVE LoadLoop(_, _)
LoadLoop(index, smp) ==
    IF ~(index < MAX_SAMPLES) THEN [samples |-> smp, sample_index |-> index]
    ELSE IF nvs_read_rc(fs, index) <= 0
         THEN [samples |-> smp, sample_index |-> index]
         ELSE LoadLoop(index + 1,
                       SlotWrite(smp, index, nvs_read_into(fs, index, smp[index])))

LoadSamplesFromNvsCall ==
    LET r == LoadLoop(0, samples)
    IN  /\ UNCHANGED outside
        /\ samples' = r.samples
        /\ sample_index' = r.sample_index
        /\ last' = Call("load_samples_from_nvs", 0, 0)
        /\ csv' = NoCsv
        /\ scans' = Dropped
        /\ UNCHANGED <<hw, fs, uptime>>

LoadSamplesFromNvs ==
    /\ LoadSamplesFromNvsCall
    /\ UNCHANGED boot

(***************************************************************************)
(* flash_init (main_voltage.c:118).  early: one of the checks before the   *)
(* mount returns (device not ready, no page info, misaligned offset).      *)
(* The call is recorded with the rc of nvs_mount: -ENODEV when the mount   *)
(* fails, 0 otherwise.                                                     *)
(***************************************************************************)
FlashOutcomes == {"early_return", "mount_failed", "mounted", "mounted_write_failed"}

FlashInitCall ==
    /\ UNCHANGED outside
    /\ \E outcome \in FlashOutcomes :
        LET early == outcome = "early_return"
            ready == IF early THEN fs.ready ELSE outcome # "mount_failed"
            wrOk  == outcome = "mounted"
            f1    == [fs EXCEPT !.ready = ready]
            found == nvs_read_rc(f1, ADDRESS_ID) > 0
        IN  /\ fs' = IF early \/ found THEN f1
                     ELSE [f1 EXCEPT !.data = nvs_write_data(@, ready, wrOk,
                                                  ADDRESS_ID, AddressEntry)]
            /\ last' = Call("flash_init", 0,
                             IF outcome = "mount_failed" THEN -19 ELSE 0)
            /\ csv' = NoCsv
            /\ scans' = Dropped
            /\ UNCHANGED <<samples, sample_index, hw, uptime>>

FlashInit ==
    /\ FlashInitCall
    /\ UNCHANGED boot

(***************************************************************************)
(* attempt_send (main_voltage.c:394): format_csv into the local            *)
(* csv_buffer, one bt_nus_send of the whole string, reset on err == 0.     *)
(* The link decides err: 0, or -ENOTCONN.                                  *)
(***************************************************************************)
SendErrors == {0, -128}

\* Mutants: the reset done whatever the send returned; the test inverted.
IndexAfterSend_Always(index, err) == 0

IndexAfterSend_Inverted(index, err) == IF err # 0 THEN 0 ELSE index

\* Mutant: the buffer is never reset.
IndexAfterSend_Never(index, err) == index

\* if (!err) sample_index = 0;
IndexAfterSend(index, err) == IF err = 0 THEN 0 ELSE index

\* The record of an attempt_send call: its one external call is
\* bt_nus_send(NULL, csv_buffer, strlen(csv_buffer)).
SendCall(index, err, out) ==
    Last("attempt_send", index, err, FALSE, FALSE, NoSources,
         <<Event("bt_nus_send", Len(out.text), err)>>)

AttemptSend ==
    LET out == CsvOutput(format_csv(samples, sample_index, CSV_BUFFER_SIZE))
    IN  /\ csv' = out
        /\ \E err \in SendErrors :
            /\ sample_index' = IndexAfterSend(sample_index, err)
            /\ last' = SendCall(sample_index, err, out)
            /\ scans' = IF err = 0 /\ scans.kept THEN NoScans ELSE scans
        /\ UNCHANGED <<samples, hw, fs, uptime>>
        /\ UNCHANGED elsewhere

(***************************************************************************)
(* A call of format_csv with a caller's region of any size.                *)
(***************************************************************************)
FormatCsv ==
    /\ UNCHANGED elsewhere
    /\ \E buf_size \in 0..MaxBufSize :
        /\ last.op # "format_csv"
        /\ csv' = CsvOutput(format_csv(samples, sample_index, buf_size))
        /\ last' = Call("format_csv", sample_index, 0)
        /\ UNCHANGED <<samples, sample_index, hw, fs, uptime, scans>>

(***************************************************************************)
(* The notification service (service.c).  ccc_cfg_changed runs when the    *)
(* client writes a Client Characteristic Configuration descriptor.         *)
(***************************************************************************)
BT_GATT_CCC_NOTIFY == 1

\* The values a client can write: nothing enabled, notify, indicate.
CccValues == {0, 1, 2}

\* The characteristics of battery_svc that have a CCC descriptor; both
\* descriptors name ccc_cfg_changed (service.c:42, 52).
Characteristics == {"voltage", "temp"}

\* notify_enabled = (value == BT_GATT_CCC_NOTIFY);
CccCfgChanged ==
    \E attr \in Characteristics, value \in CccValues :
        /\ notify_enabled' = (value = BT_GATT_CCC_NOTIFY)
        /\ ccc' = [ccc EXCEPT ![attr] = value]
        /\ UNCHANGED <<samples, sample_index, hw, fs, uptime, last, csv, scans, bt, boot, run>>

(***************************************************************************)
(* bt_send_voltage (service.c:65) and bt_send_temp (service.c:85): one     *)
(* bt_gatt_notify of the 4-byte value on the characteristic's attribute    *)
(* (attrs[2], attrs[6]) when notify_enabled is set, -EACCES otherwise.     *)
(* The link decides what bt_gatt_notify returns: 0, or -ENOTCONN.          *)
(***************************************************************************)
VoltageValues == {0, 8225}

TempValues == {100, 104}

SendValue(op, attr, enabled, value, err) ==
    IF ~enabled
    THEN [NoTransfer EXCEPT !.op = op, !.enabled = enabled, !.len = 4, !.ret = -13]
    ELSE [NoTransfer EXCEPT !.op = op, !.enabled = enabled, !.len = 4, !.ret = err,
                            !.trace = <<Event("bt_gatt_notify", attr, value)>>]

bt_send_voltage(enabled, voltage, err) ==
    SendValue("bt_send_voltage", 2, enabled, voltage, err)

bt_send_temp(enabled, temp, err) ==
    SendValue("bt_send_temp", 6, enabled, temp, err)

BtSendVoltage ==
    \E voltage \in VoltageValues, err \in SendErrors :
        /\ bt' = bt_send_voltage(notify_enabled, voltage, err)
        /\ UNCHANGED <<samples, sample_index, hw, fs, uptime, last, csv, scans,
                       notify_enabled, boot, run, ccc>>

BtSendTemp ==
    \E temp \in TempValues, err \in SendErrors :
        /\ bt' = bt_send_temp(notify_enabled, temp, err)
        /\ UNCHANGED <<samples, sample_index, hw, fs, uptime, last, csv, scans,
                       notify_enabled, boot, run, ccc>>

(***************************************************************************)
(* bt_send_csv (service.c:97).  The payload is a string of MaxPayload      *)
(* characters at most; the link fails the failAt-th bt_gatt_notify of the  *)
(* call (0: none).                                                         *)
(***************************************************************************)
CHUNK_SIZE == 20

PACING_MS == 10

MaxPayload == 45

NotifyFailChoices == {0, 1, 2, 3}

\* A payload of len bytes, none of them NUL and no two of them equal (byte i
\* has the value i), so that a chunk sent twice, skipped or taken from the
\* wrong offset shows in what the link received.
Payload(len) == [i \in 1..len |-> i]

\* Mutant: the flag is not looked at.
NotReady_Never(enabled) == FALSE

\* if (!notify_enabled) return -1;
NotReady(enabled) == ~enabled

\* Mutant: what is left of the payload goes out as one chunk.
SendSize_Whole(len, offset) == len - offset

\* (len - offset > chunk_size) ? chunk_size : (len - offset)
SendSize(len, offset) ==
    IF len - offset > CHUNK_SIZE THEN CHUNK_SIZE ELSE len - offset

\* Mutant: the result of bt_gatt_notify is ignored.
ChunkFailed_Ignored(err) == FALSE

\* if (err) return -2;
ChunkFailed(err) == err # 0

Notifies(trace) == SelectSeq(trace, LAMBDA ev : ev.e = "bt_gatt_notify")

\* while (offset < len) { notify; if (err) return -2; offset += send_size;
\*                        k_sleep(K_MSEC(10)); }  return 0;
RECURSIVE SendLoop(_, _, _, _)
SendLoop(t, csv_data, offset, failAt) ==
    IF ~(offset < Len(csv_data)) THEN [t EXCEPT !.ret = 0]
    ELSE LET send_size == SendSize(Len(csv_data), offset)
             nth       == Len(Notifies(t.trace)) + 1
             err       == IF nth = failAt THEN -128 ELSE 0
             t1        == [t EXCEPT
                            !.trace  = Append(@, Event("bt_gatt_notify", offset, send_size)),
                            !.failed = IF err # 0 THEN nth ELSE @,
                            !.rx     = IF err = 0
                                       THEN @ \o SubSeq(csv_data, offset + 1, offset + send_size)
                                       ELSE @]
         IN  IF ChunkFailed(err) THEN [t1 EXCEPT !.ret = -2]
             ELSE SendLoop([t1 EXCEPT !.trace = Append(@, Event("k_sleep", PACING_MS, 0))],
                           csv_data, offset + send_size, failAt)

bt_send_csv(enabled, csv_data, failAt) ==
    LET t == [op |-> "bt_send_csv", enabled |-> enabled, len |-> Len(csv_data),
              ret |-> 0, trace |-> <<>>, failed |-> 0, rx |-> <<>>]
    IN  IF NotReady(enabled) THEN [t EXCEPT !.ret = -1]
        ELSE SendLoop(t, csv_data, 0, failAt)

BtSendCsv ==
    \E len \in 0..MaxPayload, failAt \in NotifyFailChoices :
        /\ bt' = bt_send_csv(notify_enabled, Payload(len), failAt)
        /\ UNCHANGED <<samples, sample_index, hw, fs, uptime, last, csv, scans,
                       notify_enabled, boot, run, ccc>>

(***************************************************************************)
(* A restart of the device.  The static storage is initialized again       *)
(* (samples, sample_index, adc_buffer, fs, notify_enabled), the uptime     *)
(* starts from zero, the flash keeps its entries.  MaxRestarts bounds the  *)
(* restarts of a behaviour.                                                *)
(***************************************************************************)
MaxRestarts == 1

\* The records the buffer holds: slots 0..sample_index-1.
Held(smp, index) == [i \in 1..index |-> SlotRead(smp, i - 1)]

\* The log holds the record of every slot below index at the slot's key.
Mirrored(f, smp, index) ==
    \A i \in 0..(index - 1) :
        i \in DOMAIN f.data /\ f.data[i] = SampleEntry(SlotRead(smp, i))

Restart ==
    /\ boot.phase = "logging"
    /\ boot.count < MaxRestarts
    /\ boot' = [count |-> boot.count + 1, phase |-> "restarted",
                mirrored |-> Mirrored(fs, samples, sample_index),
                originals |-> Held(samples, sample_index)]
    /\ samples' = [i \in 0..(MAX_SAMPLES - 1) |-> ZeroSample]
    /\ sample_index' = 0
    /\ hw' = [adc_buffer |-> 0, adc_src |-> NoSource,
              pins |-> [m \in 0..(NUMBER_OF_MUXES - 1) |-> 0],
              sel |-> NoChannel, settled |-> FALSE]
    /\ fs' = [fs EXCEPT !.ready = FALSE]
    /\ uptime' = 0
    /\ notify_enabled' = FALSE
    /\ last' = Call("restart", 0, 0)
    /\ csv' = NoCsv
    /\ scans' = Dropped
    /\ ccc' = NoCcc
    /\ UNCHANGED <<bt, run>>

(***************************************************************************)
(* The conversion alone: adc_buffer[0] holds any raw sample of the         *)
(* configured resolution, and the value is converted and stored as in the  *)
(* loops of store_sample (main_voltage.c:350).                             *)
(***************************************************************************)
InitConv ==
    /\ samples = [i \in 0..(MAX_SAMPLES - 1) |-> ZeroSample]
    /\ sample_index = 0
    /\ \E raw \in 0..RawMax :
          hw = [adc_buffer |-> raw, adc_src |-> NoSource,
                pins |-> [m \in 0..(NUMBER_OF_MUXES - 1) |-> 0],
                sel |-> NoChannel, settled |-> FALSE]
    /\ fs = [ready |-> FALSE, data |-> [k \in NvsKeys |-> NoEntry]]
    /\ uptime = 0
    /\ last = Call("boot", 0, 0)
    /\ csv = NoCsv
    /\ scans = NoScans
    /\ notify_enabled = FALSE
    /\ bt = NoTransfer
    /\ boot = FirstBoot
    /\ run = AtStatement("temp")
    /\ ccc = NoCcc

Convert ==
    /\ samples' = SlotWrite(samples, sample_index,
                            [SlotRead(samples, sample_index) EXCEPT
                               !.adc_values[1] =
                                   convert_adc_to_scaled_voltage(hw.adc_buffer)])
    /\ last' = Call("convert_adc_to_scaled_voltage", sample_index, 0)
    /\ UNCHANGED <<sample_index, hw, fs, uptime, csv, scans>>
    /\ UNCHANGED elsewhere

(***************************************************************************)
(* The main loop of run_application (application.c:39-45), one statement   *)
(* at a time: read_temperature_int and bt_send_temp, store_sample,         *)
(* attempt_send, k_sleep(K_MSEC(1000)).  store_sample is followed through  *)
(* its loops and gives up the processor in every k_sleep(K_USEC(50));      *)
(* attempt_send is followed through format_csv and bt_nus_send.  The       *)
(* Bluetooth stack runs ccc_cfg_changed in its own thread, at any moment.  *)
(***************************************************************************)
\* read_temperature_int(); bt_send_temp(temp): no access to the buffer.
DriverTemp ==
    /\ run.pc = "temp"
    /\ run' = AtStatement("store")
    /\ \E temp \in TempValues, err \in SendErrors :
          bt' = bt_send_temp(notify_enabled, temp, err)
    /\ UNCHANGED <<samples, sample_index, hw, fs, uptime, last, csv, scans,
                   notify_enabled, boot, ccc>>

\* store_sample up to the loops: the initial read, the timestamp, the
\* guard, and the timestamp stored in the slot.
StoreBegin ==
    /\ run.pc = "store"
    /\ \E level \in RawLevels, fails \in FailChoices :
        LET s0        == InitialRead(hw, level, fails)
            err       == ReadErr(fails)
            timestamp == uptime \div 1000
            rec       == [SlotRead(samples, sample_index) EXCEPT !.timestamp = timestamp]
        IN  IF StoreGuard(sample_index, err)
            THEN /\ samples' = SlotWrite(samples, sample_index, rec)
                 /\ hw' = s0.hw
                 /\ run' = [pc |-> "scan", k |-> 1, level |-> level, fails |-> fails,
                            sc |-> [s0 EXCEPT !.rec = rec]]
                 /\ UNCHANGED <<sample_index, last, scans>>
            ELSE /\ hw' = AfterCall(s0.hw)
                 /\ last' = ScanCall("store_sample", sample_index, err, s0, fails, FALSE)
                 /\ scans' = IF err # 0 \/ ~scans.kept THEN scans ELSE Broken
                 /\ run' = AtStatement("send")
                 /\ UNCHANGED <<samples, sample_index>>
    /\ UNCHANGED <<fs, uptime, csv, notify_enabled, bt, boot, ccc>>

\* The loop body up to its k_sleep: adc_read, set_mux_channel, and the
\* thread is suspended.
ScanSelect ==
    /\ run.pc = "scan"
    /\ LET sc == set_mux_channel(adc_read(run.sc, run.level, run.fails),
                                 ScanOrder[run.k][1], ScanOrder[run.k][2])
       IN  /\ hw' = sc.hw
           /\ run' = [run EXCEPT !.pc = "settling", !.sc = sc]
    /\ UNCHANGED <<samples, sample_index, fs, uptime, last, csv, scans,
                   notify_enabled, bt, boot, ccc>>

\* The thread resumes after the settling delay and stores the value; after
\* the last iteration sample_index++ and the call returns.
ScanResume ==
    /\ run.pc = "settling"
    /\ LET sc == StoreValue(k_sleep_settle(run.sc),
                            ValueIndex(ScanOrder[run.k][1], ScanOrder[run.k][2]))
       IN  /\ samples' = SlotWrite(samples, sample_index, sc.rec)
           /\ IF run.k < Len(ScanOrder)
              THEN /\ hw' = sc.hw
                   /\ run' = [run EXCEPT !.pc = "scan", !.k = @ + 1, !.sc = sc]
                   /\ UNCHANGED <<sample_index, last, scans>>
              ELSE /\ hw' = AfterCall(sc.hw)
                   /\ sample_index' = NextIndex(sample_index)
                   /\ last' = ScanCall("store_sample", sample_index, 0, sc,
                                       run.fails, TRUE)
                   /\ scans' = IF scans.ok /\ run.fails = {}
                               THEN [scans EXCEPT !.recs = Append(@, sc.rec)]
                               ELSE IF scans.kept THEN Broken ELSE Dropped
                   /\ run' = AtStatement("send")
    /\ UNCHANGED <<fs, uptime, csv, notify_enabled, bt, boot, ccc>>

\* Mutant: attempt_send is also started while store_sample is suspended in
\* its settling delay.
SendTurn_WhileSettling(pc) == pc \in {"send", "settling"}

\* attempt_send is the statement after store_sample: it starts when
\* store_sample has returned.
SendTurn(pc) == pc = "send"

\* attempt_send up to the send: format_csv fills csv_buffer.
SendBegin ==
    /\ SendTurn(run.pc)
    /\ csv' = CsvOutput(format_csv(samples, sample_index, CSV_BUFFER_SIZE))
    /\ run' = AtStatement("sending")
    /\ UNCHANGED <<samples, sample_index, hw, fs, uptime, last, scans,
                   notify_enabled, bt, boot, ccc>>

\* bt_nus_send returns err; if (!err) sample_index = 0.
SendEnd ==
    /\ run.pc = "sending"
    /\ \E err \in SendErrors :
        /\ sample_index' = IndexAfterSend(sample_index, err)
        /\ last' = SendCall(sample_index, err, csv)
        /\ scans' = IF err = 0 /\ scans.kept THEN NoScans ELSE scans
    /\ run' = AtStatement("sleep")
    /\ UNCHANGED <<samples, hw, fs, uptime, csv, notify_enabled, bt, boot, ccc>>

\* k_sleep(K_MSEC(1000)), then the next iteration.
DriverSleep ==
    /\ run.pc = "sleep"
    /\ uptime + PERIOD_MS <= MaxTicks * PERIOD_MS
    /\ uptime' = uptime + PERIOD_MS
    /\ run' = AtStatement("temp")
    /\ UNCHANGED <<samples, sample_index, hw, fs, last, csv, scans,
                   notify_enabled, bt, boot, ccc>>

(***************************************************************************)
(* Spec: the in-memory pipeline the driver runs (store_sample and          *)
(* attempt_send, time passing between calls).                              *)
(* SpecNvs: every buffer operation, in any order, with the NVS log.        *)
(* SpecCsv: the serializer called on the buffers store_sample builds.      *)
(* SpecBt: the chunked transport, with the client's descriptor writes.     *)
(* SpecMirror: the persistent pipeline alone: store_sample_nvs,            *)
(* attempt_send and flash_init in any order.                               *)
(* SpecStore: both store functions on a buffer that is never flushed, with *)
(* flash_init.                                                             *)
(* SpecSessions: sessions of the loop of run_application (a store, a flush, *)
(* a sleep of one period) with either store function, each session begun   *)
(* by flash_init and, after a restart, load_samples_from_nvs.               *)
(* SpecRecovery: sessions of the NVS variant, each ended by a restart and  *)
(* followed by the startup flash_init and load_samples_from_nvs.           *)
(* SpecDriver: the main loop statement by statement, with the Bluetooth    *)
(* thread's ccc_cfg_changed at any moment.                                 *)
(* SpecCycle: the main thread alone, making progress.                      *)
(* SpecCcc: the single-value notifications, with the client's descriptor   *)
(* writes on both characteristics.                                         *)
(* SpecConv: the conversion applied to every raw sample of the ADC.        *)
(***************************************************************************)
Next ==
    \/ Tick
    \/ StoreSample
    \/ AttemptSend

Spec == Init /\ [][Next]_vars

NextNvs ==
    \/ StoreSample
    \/ StoreSampleNvs
    \/ AttemptSend
    \/ LoadSamplesFromNvs
    \/ FlashInit

SpecNvs == Init /\ [][NextNvs]_vars

NextCsv ==
    \/ Tick
    \/ StoreSample
    \/ FormatCsv

SpecCsv == Init /\ [][NextCsv]_vars

NextBt ==
    \/ CccCfgChanged
    \/ BtSendCsv

SpecBt == Init /\ [][NextBt]_vars

\* The first session and what follows a recovery: flash_init and
\* store_sample_nvs calls in any order.
LogSession ==
    /\ boot.phase \in {"logging", "recovered"}
    /\ \/ FlashInitCall
       \/ StoreSampleNvsCall
    /\ boot' = [boot EXCEPT !.phase = "logging"]

\* The startup flash_init of the session a restart begins.
Startup ==
    /\ boot.phase = "restarted"
    /\ FlashInitCall
    /\ boot' = [boot EXCEPT !.phase = "started"]

\* load_samples_from_nvs, called once the startup flash_init returned.
Recover ==
    /\ boot.phase = "started"
    /\ LoadSamplesFromNvsCall
    /\ boot' = [boot EXCEPT !.phase = "recovered"]

NextRecovery ==
    \/ LogSession
    \/ Restart
    \/ Startup
    \/ Recover

SpecRecovery == Init /\ [][NextRecovery]_vars

NextMirror ==
    \/ StoreSampleNvs
    \/ AttemptSend
    \/ FlashInit

SpecMirror == Init /\ [][NextMirror]_vars

NextStore ==
    \/ StoreSample
    \/ StoreSampleNvs
    \/ FlashInit

SpecStore == Init /\ [][NextStore]_vars

\* A session is running: the startup is over.
InSession == boot.phase \in {"logging", "recovered"}

\* flash_init at the start of the first session.
FirstStartup ==
    /\ boot.phase = "logging"
    /\ last.op = "boot"
    /\ FlashInit

\* The loop is at its store: the startup has just ended or the sleep of
\* the previous iteration has.
AtStore == last.op \in {"flash_init", "load_samples_from_nvs", "k_sleep"}

CycleStore ==
    /\ InSession
    /\ AtStore
    /\ StoreSample

CycleStoreNvs ==
    /\ InSession
    /\ AtStore
    /\ StoreSampleNvs

\* attempt_send(), the statement after the store.
CycleSend ==
    /\ InSession
    /\ last.op \in {"store_sample", "store_sample_nvs"}
    /\ AttemptSend

\* k_sleep(K_MSEC(1000)), the statement after attempt_send.
CycleSleep ==
    /\ InSession
    /\ last.op = "attempt_send"
    /\ uptime + PERIOD_MS <= MaxTicks * PERIOD_MS
    /\ uptime' = uptime + PERIOD_MS
    /\ last' = Call("k_sleep", sample_index, 0)
    /\ UNCHANGED <<samples, sample_index, hw, fs, csv, scans>>
    /\ UNCHANGED elsewhere

\* A restart at any moment of a session that has started.
SessionRestart ==
    /\ last.op # "boot"
    /\ Restart

NextSessions ==
    \/ FirstStartup
    \/ CycleStore
    \/ CycleStoreNvs
    \/ CycleSend
    \/ CycleSleep
    \/ SessionRestart
    \/ Startup
    \/ Recover

SpecSessions == Init /\ [][NextSessions]_vars

NextDriver ==
    \/ DriverTemp
    \/ StoreBegin
    \/ ScanSelect
    \/ ScanResume
    \/ SendBegin
    \/ SendEnd
    \/ DriverSleep
    \/ CccCfgChanged

SpecDriver == Init /\ [][NextDriver]_vars

\* The steps of the main thread; the loop never blocks for good, so the
\* thread goes on whenever it has a step to take.
MainThread ==
    \/ DriverTemp
    \/ StoreBegin
    \/ ScanSelect
    \/ ScanResume
    \/ SendBegin
    \/ SendEnd
    \/ DriverSleep

\* The main thread has a step to take: it is not in the k_sleep of the last
\* period the model follows.  CanStep is ENABLED <<MainThread>>_vars.
CanStep == run.pc # "sleep" \/ uptime + PERIOD_MS <= MaxTicks * PERIOD_MS

\* Weak fairness of the main thread, WF_vars(MainThread), written with
\* CanStep for its enabling condition.
MainThreadRuns == []<>(~CanStep) \/ []<><<MainThread>>_vars

SpecCycle == Init /\ [][MainThread]_vars /\ MainThreadRuns

NextCcc ==
    \/ CccCfgChanged
    \/ BtSendVoltage
    \/ BtSendTemp

SpecCcc == Init /\ [][NextCcc]_vars

NextConv == Convert

SpecConv == InitConv /\ [][NextConv]_vars

(***************************************************************************)
(* Properties.                                                             *)
(***************************************************************************)
StoreOps == {"store_sample", "store_sample_nvs"}

\* Everything the program itself holds (the history variables left out).
ProgramState == <<samples, sample_index, hw, fs>>

\* C1: in every state reachable by store_sample, store_sample_nvs,
\* attempt_send, load_samples_from_nvs and flash_init calls, with any ADC,
\* log and link outcome, 0 <= sample_index <= MAX_SAMPLES.
C1_IndexWithinCapacity == sample_index \in 0..MAX_SAMPLES

\* C1 witness: a store found the buffer full, with the ADC read succeeding.
C1_StoreOnFullBuffer ==
    /\ last.op \in StoreOps
    /\ last.index = MAX_SAMPLES
    /\ last.err = 0
    /\ sample_index = MAX_SAMPLES

\* C2 as stated: sample_index goes from k > 0 to 0 only in an attempt_send
\* whose send returned success.
C2_ResetOnlyAfterSend ==
    [][(sample_index > 0 /\ sample_index' = 0)
        => (last'.op = "attempt_send" /\ last'.err = 0)]_vars

\* C2 amended: sample_index goes from k > 0 to 0 only in an attempt_send
\* whose send returned success, or in a load_samples_from_nvs that finds
\* nothing to read at key 0.
C2_ResetBySendOrEmptyLoad ==
    [][(sample_index > 0 /\ sample_index' = 0)
        => \/ last'.op = "attempt_send" /\ last'.err = 0
           \/ last'.op = "load_samples_from_nvs" /\ nvs_read_rc(fs, 0) <= 0]_vars

\* C2 witness: a successful flush emptied a non-empty buffer.
C2_FlushedNonEmpty ==
    /\ last.op = "attempt_send"
    /\ last.err = 0
    /\ last.index > 0
    /\ sample_index = 0

\* C3: a store_sample or store_sample_nvs call in which an ADC read failed
\* (the initial read or a read inside the loops) leaves sample_index as it
\* was.
C3_FailedScanAppendsNothing ==
    [][(last'.op \in StoreOps /\ last'.failed) => sample_index' = sample_index]_vars

\* C4: every value of an appended record comes from a read of this call,
\* triggered while the value's own channel was selected and after its
\* settling delay.
C4_SettleThenRead ==
    (last.op \in StoreOps /\ last.appended)
        => \A c \in 1..TOTAL_CHANNELS :
              /\ last.src[c].chan = c - 1
              /\ last.src[c].settled
              /\ last.src[c].read >= 1

\* C5: a store_sample call that finds sample_index = MAX_SAMPLES changes
\* neither sample_index nor any slot of samples, whatever the ADC returns.
C5_FullBufferUnchanged ==
    [][(last'.op = "store_sample" /\ sample_index = MAX_SAMPLES)
        => (sample_index' = sample_index /\ samples' = samples)]_vars

\* C5 witness: store_sample was called on a full buffer.
C5_StoreSampleOnFull ==
    /\ last.op = "store_sample"
    /\ last.index = MAX_SAMPLES
    /\ sample_index = MAX_SAMPLES

\* C6: a store_sample call rejected on a full buffer is counted: it changes
\* something the program holds.
C6_DropIsCounted ==
    [][(last'.op = "store_sample" /\ last'.index = MAX_SAMPLES /\ last' # last)
        => ProgramState' # ProgramState]_vars

\* C7: an attempt_send whose send failed leaves sample_index and samples
\* as they were, so that the block it serialized is the block the next
\* flush serializes.
C7_FailedSendKeepsBuffer ==
    [][(last'.op = "attempt_send" /\ last'.err # 0)
        => /\ sample_index' = sample_index
           /\ samples' = samples
           /\ csv' = CsvOutput(format_csv(samples', sample_index', CSV_BUFFER_SIZE))]_vars

\* C7 witness: a flush of a non-empty buffer failed.
C7_FailedFlush ==
    /\ last.op = "attempt_send"
    /\ last.err # 0
    /\ last.index > 0
    /\ sample_index = last.index

\* C8: after n store_sample calls whose reads all succeeded, from an empty
\* buffer and with no successful flush in between, sample_index = n and
\* slot i holds the record of the i-th of them (for every n the history
\* reaches, n < MAX_SAMPLES included).
C8_ScansInOrder ==
    scans.ok
        => /\ sample_index = Len(scans.recs)
           /\ \A i \in 1..Len(scans.recs) :
                 SlotRead(samples, i - 1) = scans.recs[i]

\* C8 witness: the history holds MAX_SAMPLES - 1 scans, the last call being
\* one of them.
C8_SomeScans ==
    /\ scans.ok
    /\ Len(scans.recs) = MAX_SAMPLES - 1
    /\ Len(scans.recs) >= 1
    /\ last.op = "store_sample"
    /\ last.appended

\* C9: for every region size >= 1, format_csv writes no byte at or past
\* buffer + buf_size and never computes buf_size - offset with
\* offset > buf_size.
C9_WritesInsideRegion ==
    (last.op = "format_csv" /\ csv.buf_size >= 1)
        => (csv.high < csv.buf_size /\ ~csv.underflow)

\* C10: when format_csv returns the truncation result, the region holds a
\* terminated string that is empty or ends with the newline of a complete
\* row.
C10_TruncatedAtRowEnd ==
    (last.op = "format_csv" /\ csv.ret = -2)
        => /\ csv.terminated
           /\ (csv.text = <<>> \/ csv.text[Len(csv.text)] = "\n")

(***************************************************************************)
(* Reading a CSV block back: the rows are the pieces that end with a       *)
(* newline, the fields of a row are separated by commas, a field of        *)
(* digits is a decimal number (-1 for anything else).                      *)
(***************************************************************************)
RECURSIVE SplitFrom(_, _, _, _)
SplitFrom(text, sep, i, piece) ==
    IF i > Len(text) THEN <<piece>>
    ELSE IF text[i] = sep THEN <<piece>> \o SplitFrom(text, sep, i + 1, <<>>)
    ELSE SplitFrom(text, sep, i + 1, Append(piece, text[i]))

SplitOn(text, sep) == SplitFrom(text, sep, 1, <<>>)

\* The complete rows of a block: what follows the last newline is no row.
Rows(text) ==
    LET pieces == SplitOn(text, "\n")
    IN  SubSeq(pieces, 1, Len(pieces) - 1)

Fields(row) == SplitOn(row, ",")

DigitValue(ch) ==
    IF \E d \in 1..10 : DigitChars[d] = ch
    THEN (CHOOSE d \in 1..10 : DigitChars[d] = ch) - 1
    ELSE -1

RECURSIVE ParseDecimalFrom(_, _, _)
ParseDecimalFrom(chars, i, acc) ==
    IF i > Len(chars) THEN acc
    ELSE IF DigitValue(chars[i]) < 0 THEN -1
    ELSE ParseDecimalFrom(chars, i + 1, acc * 10 + DigitValue(chars[i]))

ParseDecimal(chars) ==
    IF chars = <<>> THEN -1 ELSE ParseDecimalFrom(chars, 1, 0)

ParseRow(row) ==
    LET f == Fields(row) IN [i \in 1..Len(f) |-> ParseDecimal(f[i])]

\* A record as the row the specification describes: the timestamp, then
\* every channel value in channel order.
RecordRow(rec) == <<rec.timestamp>> \o rec.adc_values

\* C11: when format_csv returns success, the block is a header row of
\* "Timestamp" and TOTAL_CHANNELS labels followed by exactly sample_index
\* data rows, the j-th carrying the timestamp of slot j - 1, and nothing
\* after the last newline.
C11_HeaderAndRows ==
    (last.op = "format_csv" /\ csv.ret = 0)
        => LET rows == Rows(csv.text)
           IN  /\ csv.text # <<>>
               /\ csv.text[Len(csv.text)] = "\n"
               /\ Len(rows) = sample_index + 1
               /\ Fields(rows[1])[1] = TimestampText
               /\ Len(Fields(rows[1])) = 1 + TOTAL_CHANNELS
               /\ \A j \in 1..sample_index :
                     ParseRow(rows[j + 1])[1] = SlotRead(samples, j - 1).timestamp

\* C12: when the serialization fits, parsing row j of format_csv's output
\* gives back the timestamp and all TOTAL_CHANNELS values of slot j - 1,
\* in channel order.
C12_RoundTrip ==
    (last.op = "format_csv" /\ csv.ret = 0)
        => LET rows == Rows(csv.text)
           IN  /\ Len(rows) = sample_index + 1
               /\ \A j \in 1..sample_index :
                     ParseRow(rows[j + 1]) = RecordRow(SlotRead(samples, j - 1))

CeilDiv(a, b) == (a + b - 1) \div b

\* C13: a bt_send_csv call that finds notifications enabled sends its
\* chunks at offsets 0, CHUNK_SIZE, 2 * CHUNK_SIZE, ...; when no send fails
\* there are ceil(len / CHUNK_SIZE) of them and the call returns 0; when the
\* i-th send fails it is the last one and the call returns -2.
C13_ChunksInOrder ==
    (bt.op = "bt_send_csv" /\ bt.enabled)
        => LET n == Notifies(bt.trace)
           IN  /\ \A i \in 1..Len(n) :
                     /\ n[i].a = (i - 1) * CHUNK_SIZE
                     /\ n[i].b = SendSize(bt.len, n[i].a)
               /\ bt.failed = 0
                     => (Len(n) = CeilDiv(bt.len, CHUNK_SIZE) /\ bt.ret = 0)
               /\ bt.failed > 0 => (Len(n) = bt.failed /\ bt.ret = -2)

\* C13 witness: the second send of a payload of more than two chunks failed.
C13_FailedMidPayload ==
    /\ bt.op = "bt_send_csv"
    /\ bt.enabled
    /\ bt.failed = 2
    /\ bt.len > 2 * CHUNK_SIZE

\* C14: a bt_send_csv call that finds notify_enabled false returns -1 and
\* calls neither bt_gatt_notify nor k_sleep, whatever the payload.
C14_NotReadySendsNothing ==
    (bt.op = "bt_send_csv" /\ ~bt.enabled) => (bt.ret = -1 /\ bt.trace = <<>>)

\* C14 witness: a non-empty payload was refused.
C14_RefusedPayload ==
    /\ bt.op = "bt_send_csv"
    /\ ~bt.enabled
    /\ bt.len > CHUNK_SIZE

\* The calls that hand bytes to the link.
LinkSends == {"bt_nus_send", "bt_gatt_notify"}

\* C15: every call of a link send primitive made by attempt_send carries
\* at most CHUNK_SIZE bytes.
C15_FlushSendsChunks ==
    last.op = "attempt_send"
        => \A i \in 1..Len(last.trace) :
              last.trace[i].e \in LinkSends => last.trace[i].a <= CHUNK_SIZE

\* C16: when the log held the records of slots 0..k-1 at the restart, the
\* startup flash_init mounted the file system and load_samples_from_nvs
\* ran, the buffer holds exactly those k records, in slot order.
C16_RecoveryRoundTrip ==
    (boot.phase = "recovered" /\ boot.mirrored /\ fs.ready)
        => /\ sample_index = Len(boot.originals)
           /\ \A i \in 1..Len(boot.originals) :
                 SlotRead(samples, i - 1) = boot.originals[i]

\* The keys of the log whose entry is a sample record, written by
\* store_sample_nvs.
SampleKeys == {i \in DOMAIN fs.data : fs.data[i].kind = "sample"}

\* C17: the log mirrors the buffer: the keys that hold a sample are exactly
\* 0..sample_index-1, and the entry at key i is the record of slot i.
C17_LogMirrorsBuffer ==
    /\ SampleKeys = 0..(sample_index - 1)
    /\ \A i \in 0..(sample_index - 1) :
          fs.data[i] = SampleEntry(SlotRead(samples, i))

\* A persistence failure has just happened: the mount in flash_init failed,
\* or the log write of a store_sample_nvs call failed.
PersistenceFailed ==
    \/ last.op = "flash_init" /\ last.err < 0
    \/ last.op = "store_sample_nvs" /\ ~last.appended /\ last.err = nvs_write_rc(FALSE, FALSE)

\* C18: after a mount failure or a failed log write, a scan whose ADC reads
\* all succeed and that finds the buffer not full appends its record:
\* sample_index increases by one.
C18_FailureNeverBlocks ==
    [][(/\ PersistenceFailed
        /\ last'.op \in StoreOps
        /\ ~last'.failed
        /\ last'.index < MAX_SAMPLES)
        => sample_index' = sample_index + 1]_vars

\* The events of one kind in the last call, in the order they happened.
EventsOf(kind) ==
    LET IsKind(e) == e.e = kind
    IN  SelectSeq(last.trace, IsKind)

\* C19: a scan that appends its record, every read succeeding, selects the
\* channels in the order bank 0 indices 0..N-1, bank 1 indices 0..N-1, each
\* once, writes the positions 0..2N-1 of the record once each, and the
\* value at position bank*N + index is the reading taken with channel
\* (bank, index) selected.
C19_ScanOrderAndPlacement ==
    (last.op \in StoreOps /\ last.appended /\ ~last.failed)
        => /\ EventsOf("set_mux_channel")
                = [k \in 1..TOTAL_CHANNELS |->
                      Event("set_mux_channel", ScanOrder[k][1], ScanOrder[k][2])]
           /\ Len(EventsOf("store")) = TOTAL_CHANNELS
           /\ \A k \in 1..TOTAL_CHANNELS :
                 /\ EventsOf("store")[k].a = ValueIndex(ScanOrder[k][1], ScanOrder[k][2])
                 /\ last.src[k].chan = k - 1

\* The main thread is inside a store_sample call, running or suspended in
\* a settling delay; it is inside an attempt_send call.
InStoreSample == run.pc \in {"scan", "settling"}

InAttemptSend == run.pc = "sending"

\* C20: between the start and the end of a store_sample call no step
\* serializes the records or resets sample_index, and inside an
\* attempt_send call no step writes a slot, drives the hardware or
\* advances sample_index.
C20_NoInterleaving ==
    [][/\ InStoreSample
          => /\ csv' = csv
             /\ sample_index' >= sample_index
             /\ run'.pc \in {"scan", "settling", "send"}
       /\ InAttemptSend
          => /\ samples' = samples
             /\ hw' = hw
             /\ sample_index' <= sample_index
             /\ run'.pc \in {"sending", "sleep"}]_vars

\* C20 witness: with a record in the buffer that a flush failed to send,
\* the next store_sample call is suspended in a settling delay, the
\* Bluetooth thread having run meanwhile.
C20_SuspendedWithRecords ==
    /\ run.pc = "settling"
    /\ sample_index >= 1
    /\ last.op = "attempt_send"
    /\ notify_enabled

\* The value the claim states, in unbounded integers, for a raw sample.
StatedVoltage(raw) == (((raw * 330) \div 1024) * (R1 + R2)) \div R2

\* C21: for every raw sample 0..1023 the converted value is
\* ((raw * 330) div 1024) * (R1 + R2) div R2, both products fit 32 bits
\* and the quotient fits the 16 bits of the result.
C21_ConversionExact ==
    last.op = "convert_adc_to_scaled_voltage"
        => /\ SlotRead(samples, 0).adc_values[1] = StatedVoltage(hw.adc_buffer)
           /\ FitsU32(ScaledProduct(hw.adc_buffer))
           /\ FitsU32(DividerProduct(hw.adc_buffer))
           /\ DividerQuotient(hw.adc_buffer) < 65536

\* C21 witness: the largest raw sample, 1023, converted to 8225.
C21_FullScaleConverted ==
    /\ last.op = "convert_adc_to_scaled_voltage"
    /\ hw.adc_buffer = 1023
    /\ SlotRead(samples, 0).adc_values[1] = 8225

\* The value the client last wrote to the descriptor of the characteristic
\* a single-value send notifies on.
OwnCcc(op) == IF op = "bt_send_temp" THEN ccc.temp ELSE ccc.voltage

\* C22: a bt_send_temp or bt_send_voltage call notifies exactly when the
\* latest value written to the descriptor of its own characteristic
\* enables notifications, and otherwise returns a negative error.
C22_NotifyFollowsOwnCcc ==
    [][(/\ bt' # bt
        /\ bt'.op \in {"bt_send_temp", "bt_send_voltage"})
        => /\ (Notifies(bt'.trace) # <<>>) <=> (OwnCcc(bt'.op) = BT_GATT_CCC_NOTIFY)
           /\ (OwnCcc(bt'.op) # BT_GATT_CCC_NOTIFY) => bt'.ret < 0]_vars

\* A row carries a record: its first field is the record's timestamp and
\* the values that follow are the record's values at the same positions.
RowCarries(row, rec) ==
    LET f == ParseRow(row)
    IN  /\ Len(f) >= 2
        /\ Len(f) <= 1 + TOTAL_CHANNELS
        /\ f = SubSeq(RecordRow(rec), 1, Len(f))

\* C23: when attempt_send resets the buffer, each record that was in slots
\* 0..sample_index-1 is a complete row of the block that was sent, in slot
\* order.
C23_NoSilentLoss ==
    (last.op = "attempt_send" /\ last.err = 0)
        => LET rows == Rows(csv.text)
           IN  /\ Len(rows) >= last.index + 1
               /\ \A j \in 1..last.index :
                     RowCarries(rows[j + 1], SlotRead(samples, j - 1))

\* The blocks the last call handed to the link.
Handed ==
    LET IsSend(ev) == ev.e \in LinkSends
    IN  SelectSeq(last.trace, IsSend)

\* C24: in a driver cycle attempt_send starts after store_sample has
\* returned, and it hands one block to the transport when the buffer is
\* non-empty after the append step and nothing when the buffer is empty.
C24_OneFlushWhenNonEmpty ==
    /\ run.pc = "sending" => last.op = "store_sample"
    /\ (run.pc = "sleep" /\ last.op = "attempt_send")
          => Len(Handed) = IF last.index > 0 THEN 1 ELSE 0

\* The cycles of the main loop started so far.
Cycles == uptime \div PERIOD_MS + 1

\* C25: sample_index never exceeds the capacity nor the number of cycles
\* started; it grows by one at most in a step, and only a flush whose send
\* succeeded lowers it, so that it stays where it is while flushes fail;
\* and every flush the loop reaches is completed, leaving the buffer empty
\* unless its send failed.
C25_AccumulateThenDrain ==
    /\ [](sample_index <= Min(MAX_SAMPLES, Cycles))
    /\ [][/\ sample_index' <= sample_index + 1
          /\ sample_index' < sample_index
                => (last'.op = "attempt_send" /\ last'.err = 0)]_vars
    /\ (run.pc = "send")
          ~> (run.pc = "sleep" /\ last.op = "attempt_send"
                /\ (last.err # 0 \/ sample_index = 0))

\* C25 witness: flushes failed until the buffer was full, a further cycle
\* found it full and left it full, and then a flush succeeded and emptied
\* it.
C25_FullThenDrained ==
    /\ run.pc = "sleep"
    /\ last.op = "attempt_send"
    /\ last.err = 0
    /\ last.index = MAX_SAMPLES
    /\ sample_index = 0
    /\ Cycles > MAX_SAMPLES

\* C26: a store_sample or store_sample_nvs call, appended, failed or
\* rejected, leaves every slot below the sample_index it started with as
\* it was.
C26_StoredRecordsKept ==
    [][last'.op \in StoreOps
        => \A i \in 0..(sample_index - 1) :
              SlotRead(samples', i) = SlotRead(samples, i)]_vars

\* C26 witness: with a record in slot 0, a store_sample_nvs call scanned
\* into slot 1 and its log write failed.
C26_FailedWriteAboveRecord ==
    /\ last.op = "store_sample_nvs"
    /\ last.index = 1
    /\ sample_index = 1
    /\ ~last.appended
    /\ ~last.failed
    /\ last.err < 0
    /\ SlotRead(samples, 1) # ZeroSample

\* What a bt_send_csv call that returned 0 has done: the bytes the link
\* received are the payload, every chunk but the last has CHUNK_SIZE bytes
\* and the last has 1..CHUNK_SIZE.
Delivered(t) ==
    LET n == Notifies(t.trace)
    IN  /\ t.rx = Payload(t.len)
        /\ \A i \in 1..Len(n) :
              IF i < Len(n) THEN n[i].b = CHUNK_SIZE
              ELSE n[i].b \in 1..CHUNK_SIZE

\* A bt_send_csv call has returned, after no more sends than the payload
\* has chunks.
Returned(t) ==
    /\ t.ret \in {0, -1, -2}
    /\ Len(Notifies(t.trace)) <= CeilDiv(t.len, CHUNK_SIZE)

\* C27 (as amended): a bt_send_csv call that returned 0 delivered the
\* payload byte for byte in chunks of CHUNK_SIZE bytes and a last chunk of
\* 1..CHUNK_SIZE; with notifications enabled an empty payload sends no
\* chunk and returns 0; the call returns for every payload and every
\* failing send.
C27_SuccessDeliversPayload ==
    bt.op = "bt_send_csv"
        => /\ bt.ret = 0 => Delivered(bt)
           /\ (bt.len = 0 /\ bt.enabled)
                 => (Notifies(bt.trace) = <<>> /\ bt.ret = 0)
           /\ Returned(bt)

\* C27 witness: a payload of two full chunks and a short one was sent
\* with success.
C27_ShortLastChunk ==
    /\ bt.op = "bt_send_csv"
    /\ bt.ret = 0
    /\ bt.len > 2 * CHUNK_SIZE
    /\ bt.len < 3 * CHUNK_SIZE
    /\ Len(Notifies(bt.trace)) = 3

\* C27 (as stated): as above, and an empty payload sends no chunk and
\* returns 0 whatever notify_enabled is.
C27_EmptyPayloadSucceeds ==
    bt.op = "bt_send_csv"
        => /\ bt.ret = 0 => Delivered(bt)
           /\ bt.len = 0 => (Notifies(bt.trace) = <<>> /\ bt.ret = 0)
           /\ Returned(bt)

\* The trace of a bt_send_csv call has a k_sleep between any two
\* consecutive bt_gatt_notify calls and none before the first.
PacedBetween(trace) ==
    /\ \A i \in 1..(Len(trace) - 1) :
          trace[i].e = "bt_gatt_notify"
             => (trace[i + 1].e = "k_sleep" /\ trace[i + 1].a = PACING_MS)
    /\ \A i \in 1..Len(trace) :
          trace[i].e = "k_sleep" => (i > 1 /\ trace[i - 1].e = "bt_gatt_notify")

\* C28: in a bt_send_csv call a pacing delay lies between any two
\* consecutive chunk sends, and every suspension of the call is such a
\* delay: it has a chunk send before it and a chunk send after it.
C28_SuspendsOnlyBetweenChunks ==
    bt.op = "bt_send_csv"
        => /\ PacedBetween(bt.trace)
           /\ \A i \in 1..Len(bt.trace) :
                 bt.trace[i].e = "k_sleep"
                    => (i < Len(bt.trace) /\ bt.trace[i + 1].e = "bt_gatt_notify")

\* The records held have strictly increasing timestamps in slot order.
TimestampsIncrease(smp, index) ==
    \A i, j \in 0..(index - 1) :
        i < j => SlotRead(smp, i).timestamp < SlotRead(smp, j).timestamp

\* C29: in every reachable state the records in slots 0..sample_index-1
\* have strictly increasing timestamps in slot order, also after
\* load_samples_from_nvs at startup and the appends that follow it.
C29_TimestampsStrictlyIncrease == TimestampsIncrease(samples, sample_index)

====
